---- MODULE Spec2Model ----
(***************************************************************************)
(* Remember Scroll Position: the PositionStore (store.ts) and the          *)
(* PositionTracker (tracker.ts) as state machines.                         *)
(*                                                                         *)
(* The store is modelled with the JavaScript semantics its code relies on: *)
(* `positions` is whatever JSON.parse returned, `key in positions` sees    *)
(* inherited members of Object.prototype, class bodies are strict-mode     *)
(* code, and every `await` is a point where other handlers may run.        *)
(*                                                                         *)
(* Specifications:                                                         *)
(*   SpecStore    the store's synchronous API after load()                 *)
(*   SpecPersist  the store with flush(), the write timer and its writes   *)
(*   Spec         the tracker in a two-tab workspace whose layout is ready *)
(*   SpecLinks    the tracker with openLinkText calls in flight            *)
(*   SpecStartup  the tracker at startup, constructed before or after the  *)
(*                layout became ready; SpecStartupFair adds fairness       *)
(*   SpecTimers   Spec (editing mode) with timeouts and file-open fair      *)
(*   SpecKeys     the key derivation over every pair of parent chains      *)
(*   SpecTabs     Spec for two tabs of one tab group showing the same note *)
(*   SpecBurst    the capture triggers of one debounce window              *)
(*   SpecWrites   SpecPersist with an adapter that never rejects           *)
(***************************************************************************)
EXTENDS Integers, Sequences, FiniteSets, TLC

(***************************************************************************)
(* Bounds of the model.                                                    *)
(***************************************************************************)
\* API calls made on the store in one run of the store specification.
MaxCalls == 4
\* Write operations against the positions file that may be in flight at once.
MaxWrites == 2
\* Largest value of settings.maxPositions that is tried (0 = unlimited).
MaxLimit == 2

(***************************************************************************)
(* Values.                                                                 *)
(***************************************************************************)
\* JavaScript `undefined` in a numeric field of a SavedPosition.
Undef == -1

\* `cursor: undefined`.
UndefCursor == [from |-> Undef, to |-> Undef]

\* A SavedPosition object.  An editor position {line, ch} is abstracted to one
\* integer.
SavedPosition(ts, sc, st, cur) ==
    [tag |-> "rec", timestamp |-> ts, scroll |-> sc, scrollTop |-> st, cursor |-> cur]

\* The value of an inherited member such as Object.prototype.constructor.
FnValue ==
    [tag |-> "function", timestamp |-> Undef, scroll |-> Undef, scrollTop |-> Undef,
     cursor |-> UndefCursor]

\* The result of reading a property that does not exist.
Undefined ==
    [tag |-> "undefined", timestamp |-> Undef, scroll |-> Undef, scrollTop |-> Undef,
     cursor |-> UndefCursor]

Fields == {"timestamp", "scroll", "scrollTop", "cursor"}

EmptyMap == [k \in {} |-> Undefined]

\* The object literal {} that `positions` is initialised and reset to.
EmptyObject == [kind |-> "object", map |-> EmptyMap]

\* Member names every object inherits from Object.prototype and that are also
\* legal vault paths (a folder or extension-less file named "constructor").
InheritedKeys == {"constructor"}

\* Keys the store specification calls the store with.
StoreKeys == {"a", "b", "c"}

\* Records the store specification passes to set: a reading-mode capture, an
\* editing-mode capture, and an editing-mode capture whose ephemeral state
\* carried no scroll.
StoreRecords ==
    { SavedPosition(1, Undef, 3, UndefCursor),
      SavedPosition(2, 1, 1, [from |-> 0, to |-> 0]),
      SavedPosition(3, Undef, 2, [from |-> 1, to |-> 2]) }

(***************************************************************************)
(* JSON.stringify / JSON.parse of the positions object.                    *)
(***************************************************************************)
DefinedFields(r) ==
    {f \in Fields : IF f = "cursor" THEN r.cursor # UndefCursor ELSE r[f] # Undef}

\* JSON text of one SavedPosition: members whose value is undefined are omitted.
JsonRecord(r) == [f \in DefinedFields(r) |-> r[f]]

\* JSON.stringify(this.positions): function-valued members are omitted, and
\* an array is written as its elements only (members that are not indices
\* are dropped).  The loaded arrays of the model are empty.
JsonStringify(p) ==
    IF p.kind = "object"
    THEN [kind |-> "object",
          map |-> [k \in {x \in DOMAIN p.map : p.map[x].tag = "rec"} |->
                      JsonRecord(p.map[k])]]
    ELSE [kind |-> p.kind, map |-> EmptyMap]

\* One parsed SavedPosition: a member the text lacks reads as undefined.
ParsedRecord(j) ==
    SavedPosition(IF "timestamp" \in DOMAIN j THEN j["timestamp"] ELSE Undef,
                  IF "scroll" \in DOMAIN j THEN j["scroll"] ELSE Undef,
                  IF "scrollTop" \in DOMAIN j THEN j["scrollTop"] ELSE Undef,
                  IF "cursor" \in DOMAIN j THEN j["cursor"] ELSE UndefCursor)

\* JSON.parse(data) of a text that parses.
JsonParse(j) ==
    IF j.kind = "object"
    THEN [kind |-> "object", map |-> [k \in DOMAIN j.map |-> ParsedRecord(j.map[k])]]
    ELSE [kind |-> j.kind, map |-> EmptyMap]

\* Contents of the positions file.  kind: "absent" (no file), "empty" (""),
\* "garbage" (text JSON.parse rejects), "json" (text that parses to `value`).
NoJson == [kind |-> "null", map |-> EmptyMap]
FileAbsent == [kind |-> "absent", value |-> NoJson]
FileEmpty == [kind |-> "empty", value |-> NoJson]
FileGarbage == [kind |-> "garbage", value |-> NoJson]
FileJson(j) == [kind |-> "json", value |-> j]

\* A well-formed file holding more entries than any limit that is tried.
FullMap ==
    [k \in StoreKeys |->
        IF k = "a" THEN SavedPosition(1, Undef, 3, UndefCursor)
        ELSE IF k = "b" THEN SavedPosition(2, 1, 1, [from |-> 0, to |-> 0])
        ELSE SavedPosition(3, Undef, 2, [from |-> 1, to |-> 2])]

\* The files a run may start with.
InitialFiles ==
    { FileAbsent, FileEmpty, FileGarbage,
      FileJson([kind |-> "null", map |-> EmptyMap]),
      FileJson([kind |-> "number", map |-> EmptyMap]),
      FileJson([kind |-> "array", map |-> EmptyMap]),
      FileJson(JsonStringify(EmptyObject)),
      FileJson(JsonStringify([kind |-> "object", map |-> FullMap])) }

VARIABLES
    positions,      \* PositionStore.positions
    dirty,          \* PositionStore.dirty
    writeTimer,     \* PositionStore.writeTimer # null
    timeouts,       \* the store's window.setTimeout callbacks still pending, by creation stamp
    maxPositions,   \* settings.maxPositions
    persistToDisk,  \* settings.persistToDisk
    disk,           \* contents of the positions file
    writes,         \* writeToDisk invocations in flight
    flushRes,       \* progress and outcome of the last flush()
    phase,          \* plugin lifecycle: "constructed", "loaded", "unloading", "unloaded"
    loadKind,       \* what load() found in the file
    call,           \* the last call made on the store
    ncalls,         \* number of calls made on the store
    restoreCursor,  \* settings.restoreCursor
    respectLinks,   \* settings.respectLinks
    layoutReady,    \* PositionTracker.layoutReady
    filesOpening,   \* PositionTracker.filesOpening
    linkUsed,       \* PositionTracker.linkUsed
    lastLeaf,       \* PositionTracker.lastLeaf (0 = null)
    saveDebounced,  \* a call of the debounced saveCurrentPosition is pending
    onScrollDebounced, \* a call of the debounced handleScroll is pending
    safetyTimers,   \* pending 1000 ms timeouts of the active-leaf-change handler
    restores,       \* restorePosition closures still running
    layoutEvent,    \* the onLayoutReady callback has not run yet
    activeLeaf,     \* workspace.activeLeaf (0 = a leaf outside the root split)
    mostRecentLeaf, \* workspace.getMostRecentLeaf()
    activeFile,     \* workspace.getActiveFile()
    leaves,         \* the markdown views of the root split
    flashing,       \* a span.is-flashing element is in the workspace
    linksInFlight,  \* openLinkText calls that have not settled
    fileOpenQueued, \* file-open has been triggered and its handler has not run yet
    nevents,        \* user and host events so far
    applied,        \* per leaf, the record applyPosition last put in its view
    ancestry,       \* per leaf, the indices of its parent chain (the layout)
    derivedKeys,    \* per leaf, the ancestry and key of its last getFileKey
    burst           \* the capture triggers of one debounce window and their Store.set calls

storeVars == <<positions, dirty, writeTimer, timeouts>>
trackerVars ==
    <<restoreCursor, respectLinks, layoutReady, filesOpening, linkUsed, lastLeaf,
      saveDebounced, onScrollDebounced, safetyTimers, restores, layoutEvent,
      activeLeaf, mostRecentLeaf, activeFile, leaves, flashing, linksInFlight,
      fileOpenQueued, nevents, applied, ancestry, derivedKeys, burst>>
vars ==
    <<positions, dirty, writeTimer, timeouts, maxPositions, persistToDisk, disk, writes,
      flushRes, phase, loadKind, call, ncalls, trackerVars>>

NoCall ==
    [op |-> "none", key |-> "", key2 |-> "", rec |-> Undefined, threw |-> FALSE,
     pre |-> EmptyObject, prevOp |-> "none"]

Call(op, key, key2, rec, threw) ==
    [op |-> op, key |-> key, key2 |-> key2, rec |-> rec, threw |-> threw,
     pre |-> positions, prevOp |-> call.op]

(***************************************************************************)
(* The workspace the tracker observes.                                     *)
(***************************************************************************)
\* The markdown leaves of the root split.  Leaf 0 stands for `null` and for a
\* leaf outside the root split (a sidebar), which has no markdown view.
Leaves == {1, 2}
NoLeaf == 0

\* For each leaf, the index of each of its ancestors within that ancestor's
\* parent, from the root down to the leaf's own parent.  Leaf 1 sits in the
\* first tab group of the root split, leaf 2 in the second.
LeafAncestry == [l \in Leaves |-> IF l = 1 THEN <<0>> ELSE <<1>>]

\* No key has been derived for the leaf.
NoKey == [path |-> <<>>, file |-> "", key |-> ""]

\* No capture trigger has been delivered.  `fired` says that a debounced
\* handler of the window has run, which ends the window.
NoBurst == [scrolls |-> 0, edits |-> 0, sets |-> 0, fired |-> FALSE]

\* The layout and the histories of the specifications that do not vary the
\* layout and do not count capture triggers.
FixedLayout ==
    /\ ancestry = LeafAncestry
    /\ derivedKeys = [l \in Leaves |-> NoKey]
    /\ burst = NoBurst

\* Vault paths of the notes that are opened.
Files == {"f", "g"}

\* Scroll offsets and selections a view can be at; a freshly loaded view is at
\* offset 0 with the selection at the start of the document.
ScrollValues == {0, 1}
ZeroSel == [from |-> 0, to |-> 0]
Selections == {ZeroSel, [from |-> 1, to |-> 2]}

\* A view as the tracker reads it: view.file.path, getMode(), leaf.working,
\* the scroll offset and the editor selection.
View(file, mode, working, top, sel) ==
    [file |-> file, mode |-> mode, working |-> working, top |-> top, sel |-> sel]

\* No record has been applied to the view since it was loaded or last moved.
NoApplied == [key |-> "", rec |-> Undefined, recaptured |-> FALSE, as |-> Undefined]

\* The state of the tracker's variables while only the store exists.
TrackerNotConstructed ==
    /\ restoreCursor = TRUE
    /\ respectLinks = TRUE
    /\ layoutReady = FALSE
    /\ filesOpening = 0
    /\ linkUsed = FALSE
    /\ lastLeaf = NoLeaf
    /\ saveDebounced = FALSE
    /\ onScrollDebounced = FALSE
    /\ safetyTimers = 0
    /\ restores = <<>>
    /\ layoutEvent = FALSE
    /\ activeLeaf = NoLeaf
    /\ mostRecentLeaf = NoLeaf
    /\ activeFile = ""
    /\ leaves = [l \in Leaves |-> View("", "source", FALSE, 0, ZeroSel)]
    /\ flashing = FALSE
    /\ linksInFlight = 0
    /\ fileOpenQueued = FALSE
    /\ nevents = 0
    /\ applied = [l \in Leaves |-> NoApplied]
    /\ FixedLayout

(***************************************************************************)
(* PositionStore                                                           *)
(***************************************************************************)
\* A property bag: an object or an array.  null and a number are not.
IsObject(p) == p.kind \in {"object", "array"}

\* Object.keys(p).  (Object.keys(null) throws; a number has none.)
ObjectKeys(p) == IF IsObject(p) THEN DOMAIN p.map ELSE {}

\* `key in p`, for a property bag p.
HasKey(key, p) == key \in DOMAIN p.map \/ key \in InheritedKeys

\* `p[key]`, for a p that is not null.
Lookup(p, key) ==
    IF ~IsObject(p) THEN Undefined
    ELSE IF key \in DOMAIN p.map THEN p.map[key]
    ELSE IF key \in InheritedKeys THEN FnValue
    ELSE Undefined

\* get(key) on the current store.
get(key) == Lookup(positions, key)

\* get size().
size == Cardinality(ObjectKeys(positions))

\* `positions[a].timestamp ?? 0`.
TimestampOf(v) == IF v.timestamp = Undef THEN 0 ELSE v.timestamp

MapPut(m, key, v) == [k \in DOMAIN m \cup {key} |-> IF k = key THEN v ELSE m[k]]
MapRemove(m, ks) == [k \in DOMAIN m \ ks |-> m[k]]

\* The sets of keys that a mutated evict may delete.
EvictOneOnly(m, max) ==
    IF max <= 0 \/ Cardinality(DOMAIN m) <= max THEN {{}}
    ELSE { {k} : k \in {x \in DOMAIN m :
                          \A y \in DOMAIN m : TimestampOf(m[x]) <= TimestampOf(m[y])} }

\* evict(), mutated: the early return for maxPositions <= 0 is missing.
EvictWithoutLimitCheck(m, max) ==
    IF Cardinality(DOMAIN m) <= max THEN {{}}
    ELSE { V \in SUBSET DOMAIN m :
             /\ Cardinality(V) = Cardinality(DOMAIN m) - max
             /\ \A v \in V, k \in DOMAIN m \ V :
                   TimestampOf(m[v]) <= TimestampOf(m[k]) }

EvictNewest(m, max) ==
    IF max <= 0 \/ Cardinality(DOMAIN m) <= max THEN {{}}
    ELSE { V \in SUBSET DOMAIN m :
             /\ Cardinality(V) = Cardinality(DOMAIN m) - max
             /\ \A v \in V, k \in DOMAIN m \ V :
                   TimestampOf(m[v]) >= TimestampOf(m[k]) }

\* evict(): the sets of keys it may delete from map m under limit max.
\* The keys are sorted by timestamp ascending and the first count - max are
\* deleted; the order Array.prototype.sort leaves among equal timestamps is
\* the order of Object.keys, which the model does not track, so every order
\* among equals is allowed.
EvictVictims(m, max) ==
    IF max <= 0 \/ Cardinality(DOMAIN m) <= max THEN {{}}
    ELSE { V \in SUBSET DOMAIN m :
             /\ Cardinality(V) = Cardinality(DOMAIN m) - max
             /\ \A v \in V, k \in DOMAIN m \ V :
                   TimestampOf(m[v]) <= TimestampOf(m[k]) }

\* scheduleDiskWrite(), mutated: no timeout is set.
ScheduleForgotten == writeTimer

\* scheduleDiskWrite(): the value of `writeTimer # null` afterwards.
scheduleDiskWrite == writeTimer \/ persistToDisk

\* scheduleDiskWrite(), mutated: the check `this.writeTimer !== null` is
\* missing, and a timeout is set although one is pending.
TimeoutsUnchecked ==
    IF persistToDisk THEN timeouts \cup {ncalls} ELSE timeouts

\* scheduleDiskWrite(): the timeouts pending afterwards.  A timeout is stamped
\* with the number of store calls made before the one that set it.
scheduledTimeouts ==
    IF persistToDisk /\ ~writeTimer THEN timeouts \cup {ncalls} ELSE timeouts

\* window.clearTimeout(this.writeTimer) in flush(): the field holds the id of
\* the timeout set last.
clearedTimeouts ==
    IF writeTimer THEN {t \in timeouts : \E u \in timeouts : u > t} ELSE timeouts

\* The dirty flag after a mutation, mutated: the mutation is not recorded.
DirtyForgotten == dirty

\* The dirty flag after set / delete / rename changed the mapping.
MarkDirty == TRUE

\* set(key, position).  On null or a number the assignment throws a TypeError
\* (class bodies are strict) before anything else happens.
set(key, position) ==
    IF ~IsObject(positions)
    THEN /\ call' = Call("set", key, "", position, TRUE)
         /\ UNCHANGED storeVars
    ELSE /\ \E V \in EvictVictims(MapPut(positions.map, key, position), maxPositions) :
              positions' = [positions EXCEPT
                              !.map = MapRemove(MapPut(positions.map, key, position), V)]
         /\ dirty' = MarkDirty
         /\ writeTimer' = scheduleDiskWrite
         /\ timeouts' = scheduledTimeouts
         /\ call' = Call("set", key, "", position, FALSE)

\* delete(key).  `key in positions` throws on null and on a number.
delete(key) ==
    IF ~IsObject(positions)
    THEN /\ call' = Call("delete", key, "", Undefined, TRUE)
         /\ UNCHANGED storeVars
    ELSE /\ call' = Call("delete", key, "", Undefined, FALSE)
         /\ IF HasKey(key, positions)
            THEN /\ positions' = [positions EXCEPT !.map = MapRemove(positions.map, {key})]
                 /\ dirty' = MarkDirty
                 /\ writeTimer' = scheduleDiskWrite
                 /\ timeouts' = scheduledTimeouts
            ELSE UNCHANGED storeVars

\* rename(oldKey, newKey).
rename(oldKey, newKey) ==
    IF ~IsObject(positions)
    THEN /\ call' = Call("rename", oldKey, newKey, Undefined, TRUE)
         /\ UNCHANGED storeVars
    ELSE /\ call' = Call("rename", oldKey, newKey, Undefined, FALSE)
         /\ IF HasKey(oldKey, positions)
            THEN /\ positions' =
                      [positions EXCEPT
                         !.map = MapRemove(MapPut(positions.map, newKey,
                                                  Lookup(positions, oldKey)),
                                           {oldKey})]
                 /\ dirty' = MarkDirty
                 /\ writeTimer' = scheduleDiskWrite
                 /\ timeouts' = scheduledTimeouts
            ELSE UNCHANGED storeVars

\* What load() leaves in `positions`, given the current value cur, the file f
\* and whether adapter.exists / adapter.read rejects.
LoadResult(cur, f, ioFails) ==
    IF ioFails \/ f.kind = "garbage" THEN EmptyObject
    ELSE IF f.kind = "json" THEN JsonParse(f.value)
    ELSE cur

\* load(), awaited by onload before the tracker is constructed.
load(ioFails) ==
    /\ positions' = (IF persistToDisk THEN LoadResult(positions, disk, ioFails)
                     ELSE positions)
    /\ loadKind' = (IF ~persistToDisk THEN "off"
                    ELSE IF ioFails THEN "ioerror"
                    ELSE IF disk.kind = "json" THEN disk.value.kind
                    ELSE disk.kind)
    /\ call' = Call("load", "", "", Undefined, FALSE)
    /\ UNCHANGED <<dirty, writeTimer, timeouts>>

\* writeToDisk(), mutated: the check of settings.persistToDisk is missing.
StartWriteUnchecked(owner) ==
    Append(writes, [stage |-> "pre", data |-> NoJson, owner |-> owner])

\* writeToDisk() up to its first await: nothing happens when persistence is off.
StartWrite(owner) ==
    IF persistToDisk
    THEN Append(writes, [stage |-> "pre", data |-> NoJson, owner |-> owner])
    ELSE writes

RemoveAt(s, i) == [j \in 1..(Len(s) - 1) |-> IF j < i THEN s[j] ELSE s[j + 1]]

(***************************************************************************)
(* The store's synchronous API on its own: load() as onload awaits it,     *)
(* then set / delete / rename in any order.  The debounce timer and the    *)
(* writes never touch `positions`; they are exercised by SpecPersist.      *)
(***************************************************************************)
settingsVars == <<maxPositions, persistToDisk>>
persistVars == <<disk, writes, flushRes>>

InitStore ==
    /\ positions = EmptyObject
    /\ dirty = FALSE
    /\ writeTimer = FALSE
    /\ timeouts = {}
    /\ maxPositions \in 0..MaxLimit
    /\ persistToDisk \in BOOLEAN
    /\ disk \in (IF persistToDisk THEN InitialFiles ELSE {FileAbsent})
    /\ writes = <<>>
    /\ flushRes = "none"
    /\ phase = "constructed"
    /\ loadKind = "none"
    /\ call = NoCall
    /\ ncalls = 0
    /\ TrackerNotConstructed

CallLoad ==
    /\ phase = "constructed"
    /\ \E ioFails \in BOOLEAN : load(ioFails)
    /\ phase' = "loaded"
    /\ ncalls' = ncalls + 1
    /\ UNCHANGED <<settingsVars, trackerVars, persistVars>>

CallSet ==
    /\ phase = "loaded" /\ ncalls < MaxCalls
    /\ \E key \in StoreKeys, position \in StoreRecords : set(key, position)
    /\ ncalls' = ncalls + 1
    /\ UNCHANGED <<settingsVars, trackerVars, persistVars, phase, loadKind>>

CallDelete ==
    /\ phase = "loaded" /\ ncalls < MaxCalls
    /\ \E key \in StoreKeys \cup InheritedKeys : delete(key)
    /\ ncalls' = ncalls + 1
    /\ UNCHANGED <<settingsVars, trackerVars, persistVars, phase, loadKind>>

CallRename ==
    /\ phase = "loaded" /\ ncalls < MaxCalls
    /\ \E oldKey \in StoreKeys \cup InheritedKeys, newKey \in StoreKeys :
          rename(oldKey, newKey)
    /\ ncalls' = ncalls + 1
    /\ UNCHANGED <<settingsVars, trackerVars, persistVars, phase, loadKind>>

NextStore ==
    \/ CallLoad
    \/ CallSet
    \/ CallDelete
    \/ CallRename

SpecStore == InitStore /\ [][NextStore]_vars

(***************************************************************************)
(* The store with its persistence: the same API over two keys, flush(),    *)
(* the debounce timer, and the steps of the writes in flight.              *)
(***************************************************************************)
PersistKeys == {"a", "b"}

PersistRecords ==
    { SavedPosition(1, Undef, 3, UndefCursor),
      SavedPosition(2, 1, 1, [from |-> 0, to |-> 0]) }

\* The files a run of the persistence specification may start with.
PersistFiles ==
    { FileAbsent, FileGarbage,
      FileJson([kind |-> "null", map |-> EmptyMap]),
      FileJson(JsonStringify([kind |-> "object", map |-> FullMap])) }

InitPersist ==
    /\ positions = EmptyObject
    /\ dirty = FALSE
    /\ writeTimer = FALSE
    /\ timeouts = {}
    \* eviction is exercised by SpecStore; here the store is unlimited
    /\ maxPositions = 0
    /\ persistToDisk \in BOOLEAN
    \* the file may be there from a session that had persistence on
    /\ disk \in PersistFiles
    /\ writes = <<>>
    /\ flushRes = "none"
    /\ phase = "constructed"
    /\ loadKind = "none"
    /\ call = NoCall
    /\ ncalls = 0
    /\ TrackerNotConstructed

PersistLoad ==
    /\ phase = "constructed"
    /\ \E ioFails \in BOOLEAN : load(ioFails)
    /\ phase' = "loaded"
    /\ ncalls' = ncalls + 1
    /\ UNCHANGED <<settingsVars, trackerVars, persistVars>>

PersistSet ==
    /\ phase = "loaded" /\ ncalls < MaxCalls
    /\ \E key \in PersistKeys, position \in PersistRecords : set(key, position)
    /\ ncalls' = ncalls + 1
    /\ UNCHANGED <<settingsVars, trackerVars, persistVars, phase, loadKind>>

PersistDelete ==
    /\ phase = "loaded" /\ ncalls < MaxCalls
    /\ delete("a")
    /\ ncalls' = ncalls + 1
    /\ UNCHANGED <<settingsVars, trackerVars, persistVars, phase, loadKind>>

PersistRename ==
    /\ phase = "loaded" /\ ncalls < MaxCalls
    /\ \E oldKey \in PersistKeys \cup InheritedKeys : rename(oldKey, "b")
    /\ ncalls' = ncalls + 1
    /\ UNCHANGED <<settingsVars, trackerVars, persistVars, phase, loadKind>>

\* flush(): clears the timer and, if dirty, awaits writeToDisk().
flush ==
    /\ phase = "loaded" /\ ncalls < MaxCalls
    /\ flushRes # "writing"
    /\ Len(writes) < MaxWrites
    /\ writeTimer' = FALSE
    /\ timeouts' = clearedTimeouts
    /\ writes' = (IF dirty THEN StartWrite("flush") ELSE writes)
    /\ flushRes' = (IF dirty /\ persistToDisk THEN "writing" ELSE "skipped")
    /\ call' = Call("flush", "", "", Undefined, FALSE)
    /\ ncalls' = ncalls + 1
    /\ UNCHANGED <<positions, dirty, settingsVars, trackerVars, disk, phase, loadKind>>

\* The callback of the debounce timer set by scheduleDiskWrite.
WriteTimerFires ==
    /\ \E t \in timeouts : timeouts' = timeouts \ {t}
    /\ Len(writes) < MaxWrites
    /\ writeTimer' = FALSE
    /\ writes' = (IF dirty THEN StartWrite("timer") ELSE writes)
    /\ UNCHANGED <<positions, dirty, settingsVars, trackerVars, disk, flushRes, phase, loadKind,
                   call, ncalls>>

\* writeToDisk() after `await exists(dir)` / `await mkdir(dir)`:
\* data = JSON.stringify(this.positions), then adapter.write is started.
WriteStringify ==
    \E i \in 1..Len(writes) :
      /\ writes[i].stage = "pre"
      /\ writes' = [writes EXCEPT ![i] = [@ EXCEPT !.stage = "write",
                                                   !.data = JsonStringify(positions)]]
      /\ UNCHANGED <<positions, dirty, writeTimer, timeouts, settingsVars, trackerVars, disk, flushRes, phase,
                     loadKind, call, ncalls>>

\* adapter.write resolves: the file holds data, then `this.dirty = false`.
WriteCompletes ==
    \E i \in 1..Len(writes) :
      /\ writes[i].stage = "write"
      /\ disk' = FileJson(writes[i].data)
      /\ dirty' = FALSE
      /\ flushRes' = (IF writes[i].owner = "flush" THEN "ok" ELSE flushRes)
      /\ writes' = RemoveAt(writes, i)
      /\ UNCHANGED <<positions, writeTimer, timeouts, settingsVars, trackerVars, phase, loadKind, call, ncalls>>

\* exists, mkdir or write rejects: the catch block logs, dirty stays set.
WriteFails ==
    \E i \in 1..Len(writes) :
      /\ flushRes' = (IF writes[i].owner = "flush" THEN "failed" ELSE flushRes)
      /\ writes' = RemoveAt(writes, i)
      /\ UNCHANGED <<positions, dirty, writeTimer, timeouts, settingsVars, trackerVars, disk, phase, loadKind,
                     call, ncalls>>

NextPersist ==
    \/ PersistLoad
    \/ PersistSet
    \/ PersistDelete
    \/ PersistRename
    \/ flush
    \/ WriteTimerFires
    \/ WriteStringify
    \/ WriteCompletes
    \/ WriteFails

SpecPersist == InitPersist /\ [][NextPersist]_vars

(***************************************************************************)
(* Claims about the store.                                                 *)
(***************************************************************************)
\* The mapping as it stood after upserting call.key, before evict() ran.
Upserted == MapPut(call.pre.map, call.key, call.rec)

\* C5: with maxPositions = N > 0, after every call of set that returns, whatever
\* load, set, delete and rename calls came before it, the store's size is at
\* most N.
C5_SizeBound ==
    (call.op = "set" /\ ~call.threw /\ maxPositions > 0) => size <= maxPositions

\* A set that found more than N entries (hydrated from the file) and cut them to N.
C5_Witness ==
    /\ call.op = "set" /\ ~call.threw /\ maxPositions > 0
    /\ Cardinality(ObjectKeys(call.pre)) > maxPositions
    /\ size = maxPositions

\* C6: when a set leaves count > N entries (N = maxPositions > 0), exactly the
\* count - N entries with the smallest timestamps are deleted and the others
\* are kept as they were; with N = 2, setting a, b, c with timestamps 1, 2, 3
\* leaves exactly the keys b and c.
C6_EvictsOldest ==
    (call.op = "set" /\ ~call.threw /\ maxPositions > 0
       /\ Cardinality(DOMAIN Upserted) > maxPositions)
    => LET kept == DOMAIN positions.map
           removed == DOMAIN Upserted \ kept
       IN /\ kept \subseteq DOMAIN Upserted
          /\ Cardinality(removed) = Cardinality(DOMAIN Upserted) - maxPositions
          /\ \A r \in removed, k \in kept :
                TimestampOf(Upserted[r]) <= TimestampOf(Upserted[k])
          /\ \A k \in kept : positions.map[k] = Upserted[k]
          /\ (/\ maxPositions = 2
              /\ DOMAIN call.pre.map = {"a", "b"}
              /\ call.pre.map["a"].timestamp = 1
              /\ call.pre.map["b"].timestamp = 2
              /\ call.key = "c" /\ call.rec.timestamp = 3)
             => kept = {"b", "c"}

\* The scenario of the claim: maxPositions = 2 and c (timestamp 3) has been set
\* after a (1) and b (2).
C6_Witness ==
    /\ maxPositions = 2
    /\ call.op = "set" /\ call.key = "c" /\ call.rec.timestamp = 3
    /\ DOMAIN call.pre.map = {"a", "b"}
    /\ call.pre.map["a"].timestamp = 1
    /\ call.pre.map["b"].timestamp = 2
    /\ loadKind = "absent"
    /\ DOMAIN positions.map = {"b", "c"}

\* C7: rename(oldKey, newKey) changes nothing when oldKey is absent; when
\* oldKey is present with value v, afterwards get(newKey) is v, get(oldKey) is
\* absent if the keys differ, and every other key is unchanged.
C7_RenameClaim ==
    (call.op = "rename" /\ ~call.threw)
    => IF call.key \notin DOMAIN call.pre.map
       THEN positions = call.pre
       ELSE /\ get(call.key2) = call.pre.map[call.key]
            /\ (call.key # call.key2 => call.key \notin DOMAIN positions.map)
            /\ \A k \in (DOMAIN call.pre.map \cup DOMAIN positions.map)
                           \ {call.key, call.key2} :
                  /\ k \in DOMAIN call.pre.map
                  /\ k \in DOMAIN positions.map
                  /\ positions.map[k] = call.pre.map[k]

\* The store was hydrated from a well-formed file (or none) and holds only
\* SavedPosition records.
WellFormed ==
    /\ loadKind \in {"absent", "empty", "garbage", "object"}
    /\ positions.kind = "object"
    /\ \A k \in DOMAIN positions.map : positions.map[k].tag = "rec"

\* What a fresh store holds after load() of the current file.
FreshLoad == LoadResult(EmptyObject, disk, FALSE)

\* C8: with persistToDisk enabled and no write failing, once flush() has
\* completed a fresh store that loads the file holds the flushed store's
\* mapping.  (Stated for a store hydrated from a well-formed file, with no
\* other write still in flight.)
C8_RoundTripClaim ==
    (/\ persistToDisk /\ WellFormed
     /\ call.op = "flush" /\ flushRes \in {"ok", "skipped"}
     /\ writes = <<>>)
    => FreshLoad = positions

\* C9: load() of a file that does not parse leaves the store empty and raises
\* nothing; a following set(key, p) makes get(key) return p, and a flush()
\* after it leaves the file holding exactly that one-entry mapping.
C9_CorruptRecovery ==
    loadKind = "garbage"
    => /\ call.op = "load" => (positions = EmptyObject /\ ~call.threw)
       /\ (ncalls = 2 /\ call.op = "set")
            => (~call.threw /\ get(call.key) = call.rec /\ size = 1)
       /\ (ncalls = 3 /\ call.op = "flush" /\ call.prevOp = "set"
             /\ flushRes \in {"ok", "skipped"})
            => (/\ size = 1
                /\ positions = call.pre
                /\ disk.kind = "json"
                /\ FreshLoad = positions)

\* load() met an unparsable file, then set and flush() ran, and flush's own
\* write completed.
C9_Witness ==
    /\ loadKind = "garbage"
    /\ ncalls = 3 /\ call.op = "flush" /\ call.prevOp = "set"
    /\ flushRes = "ok"
    /\ size = 1

\* C10: load() of a file that parses to something other than an object (null,
\* a number, an array) leaves the store as loading with no file does: empty,
\* and every later call returns normally.
C10_NonObjectAsMissing ==
    loadKind \in {"null", "number", "array"}
    => /\ call.op = "load" => positions = LoadResult(EmptyObject, FileAbsent, FALSE)
       /\ ~call.threw

(***************************************************************************)
(* PositionTracker                                                         *)
(***************************************************************************)
\* User and host events (activations, scrolls, edits) in one run of a tracker
\* specification.
MaxEvents == 2
\* restorePosition closures that may be running at once.
MaxRestores == 4
\* openLinkText calls that may be in flight at once.
MaxLinks == 2
\* const maxAttempts = 50 in restorePosition
maxAttempts == 50

Digits == <<"0", "1", "2", "3", "4", "5", "6", "7", "8", "9">>

\* path.join("-")
RECURSIVE Join(_)
Join(path) ==
    IF Len(path) = 0 THEN ""
    ELSE IF Len(path) = 1 THEN Digits[path[1] + 1]
    ELSE Digits[path[1] + 1] \o "-" \o Join(Tail(path))

\* The split id of a leaf whose parent chain has the given indices, root
\* first.  A leaf whose parent has no parent has the empty chain.
SplitIdOf(path) ==
    IF \A i \in 1..Len(path) : path[i] = 0 THEN "" ELSE Join(path)

\* getSplitId(leaf)
getSplitId(l) == SplitIdOf(ancestry[l])

\* The key of a file path under a split id.
KeyOf(file, splitId) ==
    IF splitId # "" THEN file \o "#" \o splitId ELSE file

\* getFileKey(view), for the view v shown by leaf l.
getFileKey(l, v) == KeyOf(v.file, getSplitId(l))

\* capturePosition(view) at time ts.  In editing mode the ephemeral scroll and
\* the editor's scroll offset are two readings of the one offset of the view
\* (`ephemeral?.scroll`, `scrollInfo?.top`: undefined when the host reports
\* none).  In reading mode a view without a preview element gives null.
capturePosition(v, ts) ==
    IF v.mode = "source"
    THEN SavedPosition(ts, v.top, v.top, v.sel)
    ELSE IF v.top = Undef THEN Undefined
    ELSE SavedPosition(ts, Undef, v.top, UndefCursor)

\* applyPosition, mutated: the selection is restored and scrolled into view,
\* the saved scroll offset is not applied.
ScrollIntoViewOnly(v, saved) ==
    IF v.mode = "source"
    THEN [v EXCEPT !.sel = IF saved.cursor # UndefCursor /\ restoreCursor
                           THEN saved.cursor ELSE @]
    ELSE v

\* applyPosition(view, saved): the view afterwards.
applyPosition(v, saved) ==
    IF v.mode = "source"
    THEN [v EXCEPT !.sel = IF saved.cursor # UndefCursor /\ restoreCursor
                           THEN saved.cursor ELSE @,
                   !.top = IF saved.scroll # Undef THEN saved.scroll ELSE @]
    ELSE [v EXCEPT !.top = IF saved.scrollTop # Undef THEN saved.scrollTop ELSE @]

\* The decrement, mutated: the counter is left as it is.
KeepCount(c) == c

\* Math.max(0, this.filesOpening - 1)
Decrement(c) == IF c - 1 > 0 THEN c - 1 ELSE 0

\* Date.now() during the session, on a clock that read 0 in the session that
\* wrote the hydrated records.
Now == 1

\* tryRestore, mutated: a leaf that is still working is polled again without
\* counting the attempt.
tryRestoreUncounted(r) ==
    IF leaves[r.leaf].working
    THEN r
    ELSE [r EXCEPT !.stage = "delay", !.attempts = 0]

\* One run of tryRestore in the closure r of restorePosition:
\* `if (leaf.working && attempts++ < maxAttempts)` requests another animation
\* frame, otherwise the restoreDelay timeout is set.  The closure does not
\* read attempts again once the timeout is set, and it is kept without its
\* last value.
tryRestore(r) ==
    IF leaves[r.leaf].working /\ r.attempts < maxAttempts
    THEN [r EXCEPT !.attempts = @ + 1]
    ELSE [r EXCEPT !.stage = "delay", !.attempts = 0]

\* restorePosition(leaf) through its first, synchronous call of tryRestore, as
\* a function of the counter and the closures so far: either an early return
\* that decrements, or a new closure that polls leaf.working (or, the leaf
\* being loaded already, waits for restoreDelay).
restorePosition(st, l, origin) ==
    LET key == getFileKey(l, leaves[l])
        saved == get(key)
    IN IF leaves[l].file = "" \/ saved.tag = "undefined"
       THEN [st EXCEPT !.cnt = Decrement(st.cnt)]
       ELSE [st EXCEPT !.rs = Append(st.rs,
                tryRestore([leaf |-> l, key |-> key, saved |-> saved, origin |-> origin,
                            attempts |-> 0, stage |-> "poll"]))]

\* The bookkeeping of `applied` (ap) when the view of leaf l is captured as
\* position: the capture is noted against the record applied to that view.
NoteCapture(ap, l, key, position) ==
    [ap EXCEPT ![l] = IF @.key = key /\ @.rec.tag = "rec"
                      THEN [@ EXCEPT !.recaptured = TRUE,
                                     !.as = [position EXCEPT !.timestamp = Undef]]
                      ELSE @]

\* saveLeafPosition(leaf), in a handler running at time ts; lv are the views
\* as they stand when the handler runs.
saveLeafPosition(l, lv, ap, ts) ==
    IF l = NoLeaf \/ lv[l].file = "" \/ capturePosition(lv[l], ts).tag = "undefined"
    THEN /\ UNCHANGED <<storeVars, call>>
         /\ applied' = ap
    ELSE /\ set(getFileKey(l, lv[l]), capturePosition(lv[l], ts))
         /\ applied' = NoteCapture(ap, l, getFileKey(l, lv[l]), capturePosition(lv[l], ts))

\* saveCurrentPosition()
saveCurrentPosition ==
    IF ~layoutReady \/ filesOpening > 0 \/ mostRecentLeaf = NoLeaf
    THEN UNCHANGED <<storeVars, call, applied, lastLeaf>>
    ELSE /\ lastLeaf' = mostRecentLeaf
         /\ saveLeafPosition(mostRecentLeaf, leaves, applied, Now)

\* handleScroll(event)
handleScroll ==
    IF ~layoutReady \/ filesOpening > 0
    THEN UNCHANGED <<storeVars, call, applied, lastLeaf>>
    ELSE saveCurrentPosition

\* The active-leaf-change handler for newLeaf (NoLeaf when the new leaf has no
\* markdown view).
ActiveLeafChange(newLeaf, lv, ap) ==
    /\ saveDebounced' = FALSE
    /\ saveLeafPosition(lastLeaf, lv, ap, Now)
    /\ lastLeaf' = newLeaf
    /\ filesOpening' = filesOpening + 1
    /\ safetyTimers' = safetyTimers + 1

\* handleFileOpen(file): the counter and the closures afterwards.
handleFileOpen ==
    LET st == [cnt |-> filesOpening, rs |-> restores]
    IN IF ~layoutReady
       THEN [st EXCEPT !.cnt = Decrement(filesOpening)]
       ELSE IF respectLinks /\ (flashing \/ linkUsed)
       THEN [st EXCEPT !.cnt = Decrement(filesOpening)]
       ELSE IF mostRecentLeaf = NoLeaf
       THEN [st EXCEPT !.cnt = Decrement(filesOpening)]
       ELSE restorePosition(st, mostRecentLeaf, "open")

\* handleLayoutReady(), for a tracker whose layoutReady is false: the counter
\* and the closures after restorePosition ran for every root leaf.
handleLayoutReady ==
    restorePosition(restorePosition([cnt |-> filesOpening, rs |-> restores], 1, "layout"),
                    2, "layout")

(***************************************************************************)
(* The tracker in a workspace with two tabs, after onload has awaited       *)
(* store.load(), constructed the tracker and called register().            *)
(***************************************************************************)
storeSide == <<maxPositions, persistToDisk, disk, writes, flushRes, phase, loadKind, ncalls>>
layoutVars == <<ancestry, derivedKeys, burst>>
trackerSettings == <<restoreCursor, respectLinks>>
storeUntouched == <<positions, dirty, writeTimer, timeouts, call>>

\* Every key a view of the model can have.
TrackedKeys == {KeyOf(f, SplitIdOf(LeafAncestry[l])) : l \in Leaves, f \in Files}

\* Records of an earlier session: one captured in editing mode, one captured
\* in reading mode.
EditingRecord == SavedPosition(0, 1, 1, [from |-> 1, to |-> 2])
ReadingRecord == SavedPosition(0, Undef, 1, UndefCursor)

\* The mappings the store may have been hydrated with.
InitialMaps ==
    { [k \in TrackedKeys |-> EditingRecord], [k \in TrackedKeys |-> ReadingRecord] }

Init ==
    /\ positions \in {[kind |-> "object", map |-> m] : m \in InitialMaps}
    /\ dirty = FALSE
    /\ writeTimer = FALSE
    /\ timeouts = {}
    /\ maxPositions = 0
    /\ persistToDisk = TRUE
    /\ disk = FileJson(JsonStringify(positions))
    /\ writes = <<>>
    /\ flushRes = "none"
    /\ phase = "loaded"
    /\ loadKind = "object"
    /\ call = NoCall
    /\ ncalls = 0
    /\ respectLinks = TRUE
    \* the constructor reads workspace.layoutReady; register() hands the
    \* callback to onLayoutReady, which runs it at once as the layout is ready
    /\ layoutReady = TRUE
    /\ layoutEvent = FALSE
    /\ filesOpening = 0
    /\ linkUsed = FALSE
    /\ lastLeaf = NoLeaf
    /\ saveDebounced = FALSE
    /\ onScrollDebounced = FALSE
    /\ safetyTimers = 0
    /\ restores = <<>>
    /\ activeLeaf = 1
    /\ mostRecentLeaf = 1
    /\ activeFile = "f"
    \* restoreCursor is read in editing mode only
    /\ \E mode \in {"source", "preview"} :
          /\ leaves = [l \in Leaves |->
                         View(IF l = 1 THEN "f" ELSE "g", mode, FALSE, 1, ZeroSel)]
          /\ restoreCursor \in (IF mode = "source" THEN BOOLEAN ELSE {TRUE})
    /\ flashing = FALSE
    /\ linksInFlight = 0
    /\ fileOpenQueued = FALSE
    /\ nevents = 0
    /\ applied = [l \in Leaves |-> NoApplied]
    /\ FixedLayout

\* Leaf l becomes the active leaf showing file f.  A leaf that shows another
\* file is navigated from the file explorer; `fresh` says the view loads the
\* file now (a navigation, or a tab whose content was deferred).  The view has
\* its new file when active-leaf-change is triggered; file-open is triggered
\* when the active file changes.
HostActivate ==
    \E l \in Leaves, f \in Files, fresh \in BOOLEAN :
      /\ phase = "loaded"
      /\ ~fileOpenQueued
      /\ nevents < MaxEvents
      /\ l # activeLeaf
      /\ f # leaves[l].file => (activeLeaf = NoLeaf /\ fresh)
      /\ LET lv == IF fresh
                   THEN [leaves EXCEPT ![l] = View(f, @.mode, TRUE, 0, ZeroSel)]
                   ELSE leaves
             ap == IF fresh THEN [applied EXCEPT ![l] = NoApplied] ELSE applied
         IN /\ leaves' = lv
            /\ ActiveLeafChange(l, lv, ap)
      /\ activeLeaf' = l
      /\ mostRecentLeaf' = l
      /\ activeFile' = f
      /\ fileOpenQueued' = (f # activeFile)
      /\ nevents' = nevents + 1
      /\ UNCHANGED <<storeSide, layoutVars, trackerSettings, layoutReady, linkUsed, onScrollDebounced,
                     restores, layoutEvent, flashing, linksInFlight>>

\* A leaf outside the root split (a sidebar) becomes the active leaf.
HostActivateSidebar ==
    /\ phase = "loaded"
    /\ ~fileOpenQueued
    /\ nevents < MaxEvents
    /\ activeLeaf # NoLeaf
    /\ ActiveLeafChange(NoLeaf, leaves, applied)
    /\ activeLeaf' = NoLeaf
    /\ nevents' = nevents + 1
    /\ UNCHANGED <<storeSide, layoutVars, trackerSettings, layoutReady, linkUsed, onScrollDebounced,
                   restores, layoutEvent, mostRecentLeaf, activeFile, leaves, flashing,
                   linksInFlight, fileOpenQueued>>

\* The file-open handler runs.
FileOpen ==
    /\ phase = "loaded"
    /\ fileOpenQueued
    /\ Len(handleFileOpen.rs) <= MaxRestores
    /\ fileOpenQueued' = FALSE
    /\ filesOpening' = handleFileOpen.cnt
    /\ restores' = handleFileOpen.rs
    /\ UNCHANGED <<storeSide, layoutVars, storeUntouched, trackerSettings, layoutReady, linkUsed,
                   lastLeaf, saveDebounced, onScrollDebounced, safetyTimers, layoutEvent,
                   activeLeaf, mostRecentLeaf, activeFile, leaves, flashing, linksInFlight,
                   nevents, applied>>

\* The onLayoutReady callback runs.
LayoutReady ==
    /\ phase = "loaded"
    /\ ~fileOpenQueued
    /\ layoutEvent
    /\ layoutEvent' = FALSE
    /\ IF layoutReady
       THEN UNCHANGED <<filesOpening, restores, layoutReady>>
       ELSE /\ Len(handleLayoutReady.rs) <= MaxRestores
            /\ filesOpening' = handleLayoutReady.cnt
            /\ restores' = handleLayoutReady.rs
            /\ layoutReady' = TRUE
    /\ UNCHANGED <<storeSide, layoutVars, storeUntouched, trackerSettings, linkUsed, lastLeaf,
                   saveDebounced, onScrollDebounced, safetyTimers, activeLeaf,
                   mostRecentLeaf, activeFile, leaves, flashing, linksInFlight,
                   fileOpenQueued, nevents, applied>>

\* The view of leaf l finishes loading its file; laying out the content fires
\* a scroll event, which reaches the debounced handler.
HostFinishLoading ==
    \E l \in Leaves :
      /\ ~fileOpenQueued
      /\ leaves[l].working
      /\ leaves' = [leaves EXCEPT ![l].working = FALSE]
      /\ onScrollDebounced' = (onScrollDebounced \/ phase = "loaded")
      /\ UNCHANGED <<storeSide, layoutVars, storeUntouched, trackerSettings, layoutReady, filesOpening,
                     linkUsed, lastLeaf, saveDebounced, safetyTimers,
                     restores, layoutEvent, activeLeaf, mostRecentLeaf, activeFile,
                     flashing, linksInFlight, fileOpenQueued, nevents, applied>>

\* The user scrolls the active view; the DOM scroll event reaches the
\* debounced handler.
UserScroll ==
    \E top \in ScrollValues :
      /\ phase = "loaded"
      /\ ~fileOpenQueued
      /\ nevents < MaxEvents
      /\ activeLeaf # NoLeaf
      /\ top # leaves[activeLeaf].top
      /\ leaves' = [leaves EXCEPT ![activeLeaf].top = top]
      /\ applied' = [applied EXCEPT ![activeLeaf] = NoApplied]
      /\ onScrollDebounced' = TRUE
      /\ nevents' = nevents + 1
      /\ UNCHANGED <<storeSide, layoutVars, storeUntouched, trackerSettings, layoutReady, filesOpening,
                     linkUsed, lastLeaf, saveDebounced, safetyTimers, restores, layoutEvent,
                     activeLeaf, mostRecentLeaf, activeFile, flashing, linksInFlight,
                     fileOpenQueued>>

\* The user edits the note in the active editor, which moves the selection
\* and triggers editor-change.
UserType ==
    \E sel \in Selections :
      /\ phase = "loaded"
      /\ ~fileOpenQueued
      /\ nevents < MaxEvents
      /\ activeLeaf # NoLeaf
      /\ leaves[activeLeaf].mode = "source"
      /\ sel # leaves[activeLeaf].sel
      /\ leaves' = [leaves EXCEPT ![activeLeaf].sel = sel]
      /\ applied' = [applied EXCEPT ![activeLeaf] = NoApplied]
      /\ saveDebounced' = TRUE
      /\ nevents' = nevents + 1
      /\ UNCHANGED <<storeSide, layoutVars, storeUntouched, trackerSettings, layoutReady, filesOpening,
                     linkUsed, lastLeaf, onScrollDebounced, safetyTimers, restores,
                     layoutEvent, activeLeaf, mostRecentLeaf, activeFile, flashing,
                     linksInFlight, fileOpenQueued>>

\* The debounced handleScroll runs.
ScrollDebounceFires ==
    /\ ~fileOpenQueued
    /\ onScrollDebounced
    /\ onScrollDebounced' = FALSE
    /\ handleScroll
    /\ UNCHANGED <<storeSide, layoutVars, trackerSettings, layoutReady, filesOpening, linkUsed,
                   saveDebounced, safetyTimers, restores, layoutEvent, activeLeaf,
                   mostRecentLeaf, activeFile, leaves, flashing, linksInFlight,
                   fileOpenQueued, nevents>>

\* The debounced saveCurrentPosition runs.
SaveDebounceFires ==
    /\ ~fileOpenQueued
    /\ saveDebounced
    /\ saveDebounced' = FALSE
    /\ saveCurrentPosition
    /\ UNCHANGED <<storeSide, layoutVars, trackerSettings, layoutReady, filesOpening, linkUsed,
                   onScrollDebounced, safetyTimers, restores, layoutEvent, activeLeaf,
                   mostRecentLeaf, activeFile, leaves, flashing, linksInFlight,
                   fileOpenQueued, nevents>>

\* The 30 s interval runs saveCurrentPosition.
IntervalFires ==
    /\ phase = "loaded"
    /\ ~fileOpenQueued
    /\ saveCurrentPosition
    /\ UNCHANGED <<storeSide, layoutVars, trackerSettings, layoutReady, filesOpening, linkUsed,
                   saveDebounced, onScrollDebounced, safetyTimers, restores, layoutEvent,
                   activeLeaf, mostRecentLeaf, activeFile, leaves, flashing, linksInFlight,
                   fileOpenQueued, nevents>>

\* A 1000 ms timeout of the active-leaf-change handler runs.
SafetyTimerFires ==
    /\ ~fileOpenQueued
    /\ safetyTimers > 0
    /\ safetyTimers' = safetyTimers - 1
    /\ filesOpening' = Decrement(filesOpening)
    /\ UNCHANGED <<storeSide, layoutVars, storeUntouched, trackerSettings, layoutReady, linkUsed,
                   lastLeaf, saveDebounced, onScrollDebounced, restores, layoutEvent,
                   activeLeaf, mostRecentLeaf, activeFile, leaves, flashing, linksInFlight,
                   fileOpenQueued, nevents, applied>>

restoreFrame ==
    <<storeSide, layoutVars, storeUntouched, trackerSettings, layoutReady, linkUsed, lastLeaf,
      saveDebounced, safetyTimers, layoutEvent, activeLeaf,
      mostRecentLeaf, activeFile, flashing, linksInFlight, fileOpenQueued, nevents>>

\* tryRestore in an animation frame finds the leaf loaded and sets the
\* restoreDelay timeout.  (A frame that finds the leaf still working and
\* requests another frame changes nothing.)
RestoreFrame ==
    \E i \in 1..Len(restores) :
      /\ ~fileOpenQueued
      /\ restores[i].stage = "poll"
      /\ ~leaves[restores[i].leaf].working
      /\ restores' = [restores EXCEPT ![i] = tryRestore(@)]
      /\ UNCHANGED <<restoreFrame, onScrollDebounced, filesOpening, leaves, applied>>

\* tryRestore gives up polling a leaf that is still working once its attempts
\* are used up, and sets the restoreDelay timeout.  (The frames up to there
\* are taken in one step here; PollFrame takes them one by one.)
RestorePollExhausted ==
    \E i \in 1..Len(restores) :
      /\ ~fileOpenQueued
      /\ restores[i].stage = "poll"
      /\ leaves[restores[i].leaf].working
      /\ restores' = [restores EXCEPT ![i].stage = "delay", ![i].attempts = 0]
      /\ UNCHANGED <<restoreFrame, onScrollDebounced, filesOpening, leaves, applied>>

\* The restoreDelay timeout runs: applyPosition(leaf.view, saved), then the
\* 500 ms settle timeout is set.  A changed offset fires a scroll event.
RestoreApply ==
    \E i \in 1..Len(restores) :
      LET r == restores[i]
      IN /\ ~fileOpenQueued
         /\ r.stage = "delay"
         /\ leaves' = [leaves EXCEPT ![r.leaf] = applyPosition(@, r.saved)]
         /\ applied' = [applied EXCEPT ![r.leaf] =
                          [key |-> r.key, rec |-> r.saved, recaptured |-> FALSE,
                           as |-> Undefined]]
         /\ onScrollDebounced' =
               (onScrollDebounced
                \/ (phase = "loaded"
                    /\ applyPosition(leaves[r.leaf], r.saved).top # leaves[r.leaf].top))
         /\ restores' = [restores EXCEPT ![i].stage = "settle"]
         /\ UNCHANGED <<restoreFrame, filesOpening>>

\* The 500 ms settle timeout runs.
RestoreSettle ==
    \E i \in 1..Len(restores) :
      /\ ~fileOpenQueued
      /\ restores[i].stage = "settle"
      /\ restores' = RemoveAt(restores, i)
      /\ filesOpening' = Decrement(filesOpening)
      /\ UNCHANGED <<restoreFrame, onScrollDebounced, leaves, applied>>

\* Something calls workspace.openLinkText; the wrapper, installed when
\* respectLinks was on at register(), sets linkUsed before awaiting the
\* original.
OpenLinkStart ==
    /\ phase = "loaded"
    /\ ~fileOpenQueued
    /\ linksInFlight < MaxLinks
    /\ linksInFlight' = linksInFlight + 1
    /\ linkUsed' = (IF respectLinks THEN TRUE ELSE linkUsed)
    /\ UNCHANGED <<storeSide, layoutVars, storeUntouched, trackerSettings, layoutReady, filesOpening,
                   lastLeaf, saveDebounced, onScrollDebounced, safetyTimers, restores,
                   layoutEvent, activeLeaf, mostRecentLeaf, activeFile, leaves, flashing,
                   fileOpenQueued, nevents, applied>>

\* An openLinkText call settles (resolves or rejects): the finally block.
OpenLinkEnd ==
    /\ ~fileOpenQueued
    /\ linksInFlight > 0
    /\ linksInFlight' = linksInFlight - 1
    /\ linkUsed' = (IF respectLinks THEN FALSE ELSE linkUsed)
    /\ UNCHANGED <<storeSide, layoutVars, storeUntouched, trackerSettings, layoutReady, filesOpening,
                   lastLeaf, saveDebounced, onScrollDebounced, safetyTimers, restores,
                   layoutEvent, activeLeaf, mostRecentLeaf, activeFile, leaves, flashing,
                   fileOpenQueued, nevents, applied>>

\* A heading or block that a link pointed at starts, or stops, flashing.
HostFlash ==
    /\ ~fileOpenQueued
    /\ flashing \/ linksInFlight > 0
    /\ flashing' = ~flashing
    /\ UNCHANGED <<storeSide, layoutVars, storeUntouched, trackerSettings, layoutReady, filesOpening,
                   linkUsed, lastLeaf, saveDebounced, onScrollDebounced, safetyTimers,
                   restores, layoutEvent, activeLeaf, mostRecentLeaf, activeFile, leaves,
                   linksInFlight, fileOpenQueued, nevents, applied>>

Next ==
    \/ HostActivate
    \/ HostActivateSidebar
    \/ FileOpen
    \/ HostFinishLoading
    \/ UserScroll
    \/ UserType
    \/ ScrollDebounceFires
    \/ SaveDebounceFires
    \/ IntervalFires
    \/ SafetyTimerFires
    \/ RestoreFrame
    \/ RestorePollExhausted
    \/ RestoreApply
    \/ RestoreSettle

Spec == Init /\ [][Next]_vars

(***************************************************************************)
(* Link navigation: the tracker with the openLinkText wrapper in use, in a  *)
(* workspace whose layout is ready and whose notes are in editing mode.    *)
(***************************************************************************)
InitLinks ==
    /\ positions = [kind |-> "object", map |-> [k \in TrackedKeys |-> EditingRecord]]
    /\ dirty = FALSE
    /\ writeTimer = FALSE
    /\ timeouts = {}
    /\ maxPositions = 0
    /\ persistToDisk = TRUE
    /\ disk = FileJson(JsonStringify(positions))
    /\ writes = <<>>
    /\ flushRes = "none"
    /\ phase = "loaded"
    /\ loadKind = "object"
    /\ call = NoCall
    /\ ncalls = 0
    /\ restoreCursor = TRUE
    /\ respectLinks \in BOOLEAN
    /\ layoutReady = TRUE
    /\ layoutEvent = FALSE
    /\ filesOpening = 0
    /\ linkUsed = FALSE
    /\ lastLeaf = NoLeaf
    /\ saveDebounced = FALSE
    /\ onScrollDebounced = FALSE
    /\ safetyTimers = 0
    /\ restores = <<>>
    /\ activeLeaf = 1
    /\ mostRecentLeaf = 1
    /\ activeFile = "f"
    /\ leaves = [l \in Leaves |->
                   View(IF l = 1 THEN "f" ELSE "g", "source", FALSE, 1, ZeroSel)]
    /\ flashing = FALSE
    /\ linksInFlight = 0
    /\ fileOpenQueued = FALSE
    /\ nevents = 0
    /\ applied = [l \in Leaves |-> NoApplied]
    /\ FixedLayout

NextLinks ==
    \/ OpenLinkStart
    \/ OpenLinkEnd
    \/ HostFlash
    \/ HostActivate
    \/ HostActivateSidebar
    \/ FileOpen
    \/ HostFinishLoading
    \/ ScrollDebounceFires
    \/ IntervalFires
    \/ SafetyTimerFires
    \/ RestoreFrame
    \/ RestorePollExhausted
    \/ RestoreApply
    \/ RestoreSettle

SpecLinks == InitLinks /\ [][NextLinks]_vars

(***************************************************************************)
(* Startup: the tracker constructed before the workspace layout is ready,  *)
(* with both notes still loading.                                          *)
(***************************************************************************)
InitStartup ==
    /\ positions = [kind |-> "object", map |-> [k \in TrackedKeys |-> EditingRecord]]
    /\ dirty = FALSE
    /\ writeTimer = FALSE
    /\ timeouts = {}
    /\ maxPositions = 0
    /\ persistToDisk = TRUE
    /\ disk = FileJson(JsonStringify(positions))
    /\ writes = <<>>
    /\ flushRes = "none"
    /\ phase = "loaded"
    /\ loadKind = "object"
    /\ call = NoCall
    /\ ncalls = 0
    /\ restoreCursor = TRUE
    /\ respectLinks = TRUE
    \* the constructor reads workspace.layoutReady: the layout may have become
    \* ready while onload awaited loadSettings() and store.load()
    /\ layoutReady \in BOOLEAN
    /\ layoutEvent = TRUE
    /\ filesOpening = 0
    /\ linkUsed = FALSE
    /\ lastLeaf = NoLeaf
    /\ saveDebounced = FALSE
    /\ onScrollDebounced = FALSE
    /\ safetyTimers = 0
    /\ restores = <<>>
    /\ activeLeaf = 1
    /\ mostRecentLeaf = 1
    /\ activeFile = "f"
    /\ leaves = [l \in Leaves |->
                   View(IF l = 1 THEN "f" ELSE "g", "source", TRUE, 0, ZeroSel)]
    /\ flashing = FALSE
    /\ linksInFlight = 0
    /\ fileOpenQueued = FALSE
    /\ nevents = 0
    /\ applied = [l \in Leaves |-> NoApplied]
    /\ FixedLayout

NextStartup ==
    \/ LayoutReady
    \/ HostActivate
    \/ HostActivateSidebar
    \/ FileOpen
    \/ HostFinishLoading
    \/ ScrollDebounceFires
    \/ IntervalFires
    \/ SafetyTimerFires
    \/ RestoreFrame
    \/ RestorePollExhausted
    \/ RestoreApply
    \/ RestoreSettle

SpecStartup == InitStartup /\ [][NextStartup]_vars

(***************************************************************************)
(* Claims about the tracker.                                               *)
(***************************************************************************)
\* The positional fields of a record.
Positional(r) == [scroll |-> r.scroll, scrollTop |-> r.scrollTop, cursor |-> r.cursor]

\* C1: for a leaf that became active and whose key had a stored record, no
\* capture changes the record under that key between the active-leaf-change
\* event and the moment the restore applies the record: while a restore begun
\* by file-open has yet to apply, the store holds under its key the position it
\* is about to apply.
C1_RecordKeptUntilApplied ==
    \A i \in 1..Len(restores) :
       (restores[i].origin = "open" /\ restores[i].stage \in {"poll", "delay"})
       => Positional(get(restores[i].key)) = Positional(restores[i].saved)

\* C2: no capture trigger (debounced scroll, debounced editor-change, the
\* interval, the save on leaving a leaf) changes the store in a step taken
\* while filesOpening is nonzero or layoutReady is false.
C2_NoMutationWhileSuppressed ==
    [][(filesOpening # 0 \/ ~layoutReady) => positions' = positions]_vars

\* C3, as stated: for any stored record and any settings, once the restore has
\* applied a record to a view, a capture of that view under the same key with
\* no user movement in between stores the record's scroll, scrollTop and
\* cursor.
C3_AnyRecordAnySettings ==
    \A l \in Leaves :
       applied[l].recaptured => Positional(applied[l].as) = Positional(applied[l].rec)

\* The record has the fields a capture in the given mode produces: in editing
\* mode scroll, scrollTop and cursor, the two offsets agreeing; in reading
\* mode scrollTop alone.
RecordFitsMode(rec, mode) ==
    IF mode = "source"
    THEN rec.scroll # Undef /\ rec.scrollTop = rec.scroll /\ rec.cursor # UndefCursor
    ELSE rec.scroll = Undef /\ rec.scrollTop # Undef /\ rec.cursor = UndefCursor

\* C3, amended: when the applied record has the fields of a capture in the
\* view's mode and, in editing mode, restoreCursor is on, a capture of that view
\* under the same key with no user movement since the restore stores the
\* record's scroll, scrollTop and cursor.
C3_IdempotentRestore ==
    \A l \in Leaves :
       (/\ applied[l].recaptured
        /\ RecordFitsMode(applied[l].rec, leaves[l].mode)
        /\ (leaves[l].mode = "source" => restoreCursor))
       => Positional(applied[l].as) = Positional(applied[l].rec)

\* An editing view that was loaded afresh, had offset and selection restored
\* from its record, and was captured again.
C3_Witness ==
    \E l \in Leaves :
       /\ applied[l].recaptured
       /\ leaves[l].mode = "source" /\ restoreCursor
       /\ RecordFitsMode(applied[l].rec, "source")
       /\ leaves[l].sel # ZeroSel
       /\ get(applied[l].key).timestamp = Now

\* C4: with respectLinks on, the file-open handler running while an
\* openLinkText call is in flight starts no restore and leaves the store
\* unchanged; and when no call is in flight linkUsed is false.
C4_LinkOpenRestoresNothing ==
    /\ [][(respectLinks /\ linksInFlight > 0 /\ fileOpenQueued /\ ~fileOpenQueued')
            => (restores' = restores /\ positions' = positions)]_vars
    /\ []((respectLinks /\ linksInFlight = 0) => ~linkUsed)

(***************************************************************************)
(* Key derivation: getFileKey for two leaves that show one note, over      *)
(* every pair of parent chains up to a depth.                              *)
(***************************************************************************)
\* Longest parent chain of a leaf, and largest index of a child in its parent.
MaxDepth == 2
MaxIndex == 2

\* The parent chains a leaf may have.
Paths == UNION {[1..n -> 0..MaxIndex] : n \in 0..MaxDepth}

InitKeys ==
    /\ positions = EmptyObject
    /\ dirty = FALSE
    /\ writeTimer = FALSE
    /\ timeouts = {}
    /\ maxPositions = 0
    /\ persistToDisk = FALSE
    /\ disk = FileAbsent
    /\ writes = <<>>
    /\ flushRes = "none"
    /\ phase = "loaded"
    /\ loadKind = "off"
    /\ call = NoCall
    /\ ncalls = 0
    /\ restoreCursor = TRUE
    /\ respectLinks = TRUE
    /\ layoutReady = TRUE
    /\ layoutEvent = FALSE
    /\ filesOpening = 0
    /\ linkUsed = FALSE
    /\ lastLeaf = NoLeaf
    /\ saveDebounced = FALSE
    /\ onScrollDebounced = FALSE
    /\ safetyTimers = 0
    /\ restores = <<>>
    /\ activeLeaf = 1
    /\ mostRecentLeaf = 1
    /\ activeFile = "f"
    /\ leaves = [l \in Leaves |-> View("f", "source", FALSE, 1, ZeroSel)]
    /\ flashing = FALSE
    /\ linksInFlight = 0
    /\ fileOpenQueued = FALSE
    /\ nevents = 0
    /\ applied = [l \in Leaves |-> NoApplied]
    /\ ancestry \in [Leaves -> Paths]
    /\ derivedKeys = [l \in Leaves |-> NoKey]
    /\ burst = NoBurst

\* getFileKey(leaf.view) is evaluated for leaf l.
DeriveKey ==
    \E l \in Leaves :
      /\ derivedKeys' = [derivedKeys EXCEPT ![l] =
                           [path |-> ancestry[l], file |-> leaves[l].file,
                            key |-> getFileKey(l, leaves[l])]]
      /\ UNCHANGED <<storeSide, storeUntouched, trackerSettings, layoutReady, filesOpening,
                     linkUsed, lastLeaf, saveDebounced, onScrollDebounced, safetyTimers,
                     restores, layoutEvent, activeLeaf, mostRecentLeaf, activeFile, leaves,
                     flashing, linksInFlight, fileOpenQueued, nevents, applied, ancestry,
                     burst>>

NextKeys == DeriveKey

SpecKeys == InitKeys /\ [][NextKeys]_vars

\* C11: for one document path, two leaves whose parent-chain index paths differ
\* derive different keys; a leaf whose indices are all 0 derives the bare path,
\* with no "#" suffix; and deriving the key of a leaf again, the layout being
\* unchanged, yields the same key.
C11_KeysDistinguishSplits ==
    \A l1, l2 \in Leaves :
       (derivedKeys[l1] # NoKey /\ derivedKeys[l2] # NoKey)
       => /\ (derivedKeys[l1].path # derivedKeys[l2].path
                /\ derivedKeys[l1].file = derivedKeys[l2].file)
             => derivedKeys[l1].key # derivedKeys[l2].key
          /\ (\A i \in 1..Len(derivedKeys[l1].path) : derivedKeys[l1].path[i] = 0)
             => derivedKeys[l1].key = derivedKeys[l1].file
          /\ derivedKeys[l1].key = getFileKey(l1, leaves[l1])

(***************************************************************************)
(* Two tabs of one tab group that show the same note.  The two leaves have *)
(* the same parent, hence the same parent chain.                           *)
(***************************************************************************)
InitTabs ==
    /\ positions \in {[kind |-> "object", map |-> m] : m \in InitialMaps}
    /\ dirty = FALSE
    /\ writeTimer = FALSE
    /\ timeouts = {}
    /\ maxPositions = 0
    /\ persistToDisk = TRUE
    /\ disk = FileJson(JsonStringify(positions))
    /\ writes = <<>>
    /\ flushRes = "none"
    /\ phase = "loaded"
    /\ loadKind = "object"
    /\ call = NoCall
    /\ ncalls = 0
    /\ respectLinks = TRUE
    /\ layoutReady = TRUE
    /\ layoutEvent = FALSE
    /\ filesOpening = 0
    /\ linkUsed = FALSE
    /\ lastLeaf = NoLeaf
    /\ saveDebounced = FALSE
    /\ onScrollDebounced = FALSE
    /\ safetyTimers = 0
    /\ restores = <<>>
    /\ activeLeaf = 1
    /\ mostRecentLeaf = 1
    /\ activeFile = "f"
    /\ \E mode \in {"source", "preview"} :
          /\ leaves = [l \in Leaves |-> View("f", mode, FALSE, 1, ZeroSel)]
          /\ restoreCursor \in (IF mode = "source" THEN BOOLEAN ELSE {TRUE})
    /\ flashing = FALSE
    /\ linksInFlight = 0
    /\ fileOpenQueued = FALSE
    /\ nevents = 0
    /\ applied = [l \in Leaves |-> NoApplied]
    /\ ancestry = [l \in Leaves |-> LeafAncestry[1]]
    /\ derivedKeys = [l \in Leaves |-> NoKey]
    /\ burst = NoBurst

SpecTabs == InitTabs /\ [][Next]_vars

\* The leaf whose view a step captures: the active-leaf-change handler captures
\* lastLeaf, saveCurrentPosition captures the most recent leaf.
CapturedLeaf == IF filesOpening' > filesOpening THEN lastLeaf ELSE mostRecentLeaf

\* C12: when the same file is open in two different tabs, their stored
\* positions are independent: a capture from one tab never changes the record
\* that a restore in the other tab reads.
C12_TabsIndependent ==
    [][\A l \in Leaves :
          (/\ positions' # positions
           /\ CapturedLeaf # NoLeaf
           /\ l # CapturedLeaf
           /\ leaves[l].file = leaves[CapturedLeaf].file)
          => Lookup(positions', getFileKey(l, leaves[l])) = get(getFileKey(l, leaves[l]))]_vars

(***************************************************************************)
(* One debounce window: scroll and editor-change events arrive while no    *)
(* debounced handler of the window has run; then the handlers run.  Both   *)
(* debouncers are debounce(fn, 100, false): a call while one is pending    *)
(* neither resets the timer nor adds an invocation.                        *)
(***************************************************************************)
\* Capture triggers in one window.
MaxBurst == 4

burstFrame ==
    <<storeSide, trackerSettings, layoutReady, filesOpening, linkUsed, safetyTimers,
      restores, layoutEvent, activeLeaf, mostRecentLeaf, activeFile, flashing,
      linksInFlight, fileOpenQueued, nevents, ancestry, derivedKeys>>

\* The scroll listener, mutated: it runs handleScroll at the event instead of
\* calling the debouncer.
ScrollListenerUndebounced ==
    \E top \in ScrollValues :
      /\ ~burst.fired
      /\ burst.scrolls + burst.edits < MaxBurst
      /\ top # leaves[activeLeaf].top
      /\ leaves' = [leaves EXCEPT ![activeLeaf].top = top]
      /\ handleScroll
      /\ burst' = [burst EXCEPT !.scrolls = @ + 1, !.sets = @ + 1]
      /\ UNCHANGED <<burstFrame, saveDebounced, onScrollDebounced>>

\* The document scroll listener: this.onScrollDebounced(e).
ScrollListener ==
    \E top \in ScrollValues :
      /\ ~burst.fired
      /\ burst.scrolls + burst.edits < MaxBurst
      /\ top # leaves[activeLeaf].top
      /\ leaves' = [leaves EXCEPT ![activeLeaf].top = top]
      /\ onScrollDebounced' = TRUE
      /\ burst' = [burst EXCEPT !.scrolls = @ + 1]
      /\ UNCHANGED <<burstFrame, storeUntouched, applied, lastLeaf, saveDebounced>>

\* The editor-change listener: this.saveDebounced().
EditorChange ==
    \E sel \in Selections :
      /\ ~burst.fired
      /\ burst.scrolls + burst.edits < MaxBurst
      /\ leaves[activeLeaf].mode = "source"
      /\ sel # leaves[activeLeaf].sel
      /\ leaves' = [leaves EXCEPT ![activeLeaf].sel = sel]
      /\ saveDebounced' = TRUE
      /\ burst' = [burst EXCEPT !.edits = @ + 1]
      /\ UNCHANGED <<burstFrame, storeUntouched, applied, lastLeaf, onScrollDebounced>>

\* Store.set calls that a run of handleScroll or saveCurrentPosition makes.
SetCalls ==
    IF ~layoutReady \/ filesOpening > 0 \/ mostRecentLeaf = NoLeaf
    THEN 0
    ELSE IF leaves[mostRecentLeaf].file = "" THEN 0 ELSE 1

\* The timer of onScrollDebounced expires: handleScroll runs.
ScrollTimerExpires ==
    /\ onScrollDebounced
    /\ onScrollDebounced' = FALSE
    /\ handleScroll
    /\ burst' = [burst EXCEPT !.fired = TRUE, !.sets = @ + SetCalls]
    /\ UNCHANGED <<burstFrame, leaves, saveDebounced>>

\* The timer of saveDebounced expires: saveCurrentPosition runs.
SaveTimerExpires ==
    /\ saveDebounced
    /\ saveDebounced' = FALSE
    /\ saveCurrentPosition
    /\ burst' = [burst EXCEPT !.fired = TRUE, !.sets = @ + SetCalls]
    /\ UNCHANGED <<burstFrame, leaves, onScrollDebounced>>

NextBurst ==
    \/ ScrollListener
    \/ EditorChange
    \/ ScrollTimerExpires
    \/ SaveTimerExpires

SpecBurst == Init /\ [][NextBurst]_vars

\* Every trigger of the window has been delivered to its handler.
BurstDrained ==
    /\ burst.scrolls + burst.edits >= 1
    /\ ~saveDebounced
    /\ ~onScrollDebounced

\* The stored record of the active view is the view's state now.
RecordIsCurrent ==
    get(getFileKey(activeLeaf, leaves[activeLeaf])) = capturePosition(leaves[activeLeaf], Now)

\* C13 as stated: any N >= 1 capture triggers (scroll and editor-change, in
\* any mix) within one window, capture not being suppressed, result in exactly
\* one Store.set, whose record is the view state when the handler runs.
C13_OneSetPerWindow ==
    BurstDrained => (burst.sets = 1 /\ RecordIsCurrent)

\* C13, amended: each debouncer coalesces the triggers it receives.  N >= 1
\* scroll events within one window result in exactly one Store.set, and so do
\* N >= 1 editor-change events; a window that holds both kinds results in two,
\* one per debouncer.  The record is the view state when the last handler runs.
C13_OneSetPerDebouncer ==
    BurstDrained
    => /\ burst.sets = (IF burst.scrolls > 0 THEN 1 ELSE 0) + (IF burst.edits > 0 THEN 1 ELSE 0)
       /\ RecordIsCurrent

\* Several scroll events of one window have been coalesced into one Store.set.
C13_Witness ==
    /\ BurstDrained
    /\ burst.scrolls >= 2
    /\ burst.edits = 0
    /\ burst.sets = 1
    /\ call.op = "set"

(***************************************************************************)
(* Suppression is bounded.  Every 1000 ms timeout that the active-leaf-    *)
(* change handler sets runs, and the host delivers every file-open it has  *)
(* triggered; nothing is assumed about the restore closures, which may     *)
(* poll, wait or settle for ever.                                          *)
(***************************************************************************)
\* The counter does not depend on the mode of the views: editing mode is taken.
InitTimers == Init /\ restoreCursor /\ leaves[1].mode = "source"

SpecTimers ==
    /\ InitTimers
    /\ [][Next]_vars
    /\ WF_vars(SafetyTimerFires)
    /\ WF_vars(FileOpen)

\* C14: once active-leaf-change events stop arriving, filesOpening returns to
\* 0 no later than the expiry of the 1000 ms timeout of the last of them (when
\* no timeout is pending the counter is 0), also when no file-open follows or
\* the restore never completes: capture is never disabled for ever.
C14_SuppressionBounded ==
    /\ [](safetyTimers = 0 => filesOpening = 0)
    /\ <>[](filesOpening = 0)

\* Every timeout has run and the counter is 0 while a restore that an
\* activation started has not completed.
C14_Witness ==
    /\ safetyTimers = 0
    /\ filesOpening = 0
    /\ nevents > 0
    /\ \E i \in 1..Len(restores) : restores[i].origin = "open" /\ restores[i].stage = "poll"

\* C15: on each active-leaf-change the handler, in one synchronous run, captures
\* the position of the view being left and stores it under that view's key,
\* then increments filesOpening; both are done before any event that the
\* loading of the new view causes is handled.
C15_LeaveCaptured ==
    [][(filesOpening' = filesOpening + 1 /\ activeLeaf # NoLeaf)
       => /\ Lookup(positions', getFileKey(activeLeaf, leaves[activeLeaf]))
               = capturePosition(leaves[activeLeaf], Now)
          /\ filesOpening' > 0
          /\ onScrollDebounced' = onScrollDebounced]_vars

(***************************************************************************)
(* Startup with the host's timers and callbacks running: the onLayoutReady *)
(* callback, file-open, the end of loading, animation frames and timeouts  *)
(* all happen eventually.                                                  *)
(***************************************************************************)
SpecStartupFair ==
    /\ SpecStartup
    /\ WF_vars(LayoutReady)
    /\ WF_vars(FileOpen)
    /\ WF_vars(HostFinishLoading)
    /\ WF_vars(SafetyTimerFires)
    /\ WF_vars(RestoreFrame)
    /\ WF_vars(RestorePollExhausted)
    /\ WF_vars(RestoreApply)
    /\ WF_vars(RestoreSettle)

\* C16: every document view that is visible at startup and whose key has a
\* stored record eventually has that record applied, whether the layout
\* becomes ready before or after the plugin has loaded the store and
\* constructed the tracker.  (Both views of the startup layout have a record
\* under their key; the formula asks only that some stored record is applied
\* to each of them.)
C16_StartupRestored ==
    \A l \in Leaves : <>(applied[l].rec.tag = "rec")

(***************************************************************************)
(* PositionStore: flush, persistence switched off, and writes that overlap *)
(* mutations (checked under SpecStore and SpecPersist).                    *)
(***************************************************************************)
\* C17: flush() cancels the pending write timer and, the store being dirty,
\* writes the mapping at once; when that write succeeds then, as flush()
\* completes, dirty is false, no write timer is pending and the file holds
\* the in-memory mapping (as JSON.stringify writes it).
C17_FlushPostcondition ==
    [][(flushRes = "writing" /\ flushRes' = "ok")
       => /\ dirty' = FALSE
          /\ writeTimer' = FALSE
          /\ disk' = FileJson(JsonStringify(positions'))]_vars

\* C18: with maxPositions = 0 no set removes an entry: after each set the
\* store holds the entry just set and every entry it held before, unchanged, so
\* it contains every key set so far that was not deleted or renamed away.
C18_UnlimitedKeepsAll ==
    (call.op = "set" /\ ~call.threw /\ maxPositions = 0)
    => /\ positions.map = Upserted
       /\ DOMAIN call.pre.map \subseteq ObjectKeys(positions)
       /\ get(call.key) = call.rec

\* With maxPositions = 0 a set added a third entry to two that were there.
C18_Witness ==
    /\ maxPositions = 0
    /\ call.op = "set" /\ ~call.threw
    /\ call.key \notin DOMAIN call.pre.map
    /\ Cardinality(DOMAIN call.pre.map) = 2
    /\ size = 3

\* C19: while persistToDisk is false, load() reads nothing (the mapping stays
\* as constructed whatever the file holds) and no sequence of set, delete,
\* rename, timer expiry and flush writes the file or starts a write, while
\* set, get, delete and rename keep working on the in-memory mapping.
C19_PersistenceOff ==
    /\ [](~persistToDisk
          => /\ writes = <<>>
             /\ loadKind \in {"none", "off"}
             /\ ~call.threw
             /\ call.op = "load" => positions = EmptyObject
             /\ call.op = "set" => (get(call.key) = call.rec /\ positions.map = Upserted)
             /\ call.op = "delete" => call.key \notin DOMAIN positions.map
             /\ (call.op = "rename" /\ call.key \in DOMAIN call.pre.map /\ call.key # call.key2)
                  => /\ get(call.key2) = call.pre.map[call.key]
                     /\ call.key \notin DOMAIN positions.map)
    /\ [][~persistToDisk => disk' = disk]_vars

\* With persistence off and a file of an earlier session on disk, flush() has
\* been called on a dirty store that load() left empty and set then filled.
C19_Witness ==
    /\ ~persistToDisk
    /\ disk = FileJson(JsonStringify([kind |-> "object", map |-> FullMap]))
    /\ call.op = "flush" /\ call.prevOp = "set"
    /\ dirty
    /\ size = 1

(***************************************************************************)
(* Persistence with an adapter whose exists, mkdir and write never reject. *)
(***************************************************************************)
NextWrites ==
    \/ PersistLoad
    \/ PersistSet
    \/ PersistDelete
    \/ PersistRename
    \/ flush
    \/ WriteTimerFires
    \/ WriteStringify
    \/ WriteCompletes

SpecWrites == InitPersist /\ [][NextWrites]_vars

\* C20: with persistToDisk on and every write succeeding, every mutation, also
\* one made while the debounced write is pending or a write is in flight, is
\* included in a later write: once the mutations have stopped (the last one
\* being a set), the timer has fired and no write is in flight, the file holds
\* the in-memory mapping (as JSON.stringify writes it).
C20_EveryMutationWritten ==
    (/\ persistToDisk
     /\ ~call.threw
     /\ call.op = "set" \/ (call.op = "flush" /\ call.prevOp = "set")
     /\ ~writeTimer
     /\ writes = <<>>)
    => disk = FileJson(JsonStringify(positions))

\* C21: at no time are two write operations against the positions file in
\* flight at once, under any interleaving of timer expiry, set, delete, rename,
\* flush() and load().
C21_SingleWriter == Len(writes) <= 1

\* A step in which the restoreDelay timeout of restore i runs applyPosition.
AppliesRestore(i) ==
    /\ restores[i].stage = "delay"
    /\ Len(restores') = Len(restores)
    /\ restores'[i].stage = "settle"

\* C22: as soon as the restore has applied a saved record to a view it writes
\* that record back into the store under the key it was looked up under (a
\* Store.set in the same timeout callback, before any capture can run).
C22_ReSaveAfterApply ==
    [][\A i \in 1..Len(restores) :
          AppliesRestore(i)
          => /\ call'.op = "set"
             /\ call'.key = restores[i].key
             /\ call'.rec = restores[i].saved
             /\ Lookup(positions', restores[i].key) = restores[i].saved]_vars

\* C23: in every restore that reaches the apply step, filesOpening does not
\* reach zero before the restore has applied and re-written its record: while
\* a restore is polling or waiting for restoreDelay the counter is positive,
\* and the restore's own decrement comes after the apply.
C23_SuppressedUntilApplied ==
    \A i \in 1..Len(restores) :
       restores[i].stage \in {"poll", "delay"} => filesOpening > 0


\* C24: layoutReady is raised only after the startup restore of every visible
\* view has applied its saved position: while a restore started by
\* handleLayoutReady has not applied yet, the flag is down (and so every capture
\* is skipped).
C24_SettledAfterApplied ==
    \A i \in 1..Len(restores) :
       (restores[i].origin = "layout" /\ restores[i].stage \in {"poll", "delay"})
       => ~layoutReady


\* C25: a saved record looked up for one document is applied only to a view
\* that still shows that document: the record last applied to the view of a
\* leaf was looked up under the key that view has.
C25_AppliedToItsDocument ==
    \A l \in Leaves :
       applied[l].rec.tag = "rec" => applied[l].key = getFileKey(l, leaves[l])


\* C26: when the file-open handler aborts the restore because respectLinks is
\* on and a highlight is flashing or linkUsed is set, the abort leaves
\* filesOpening as it is (the counter comes down later, by the safety timeout).
C26_LinkAbortKeepsCounter ==
    [][(fileOpenQueued /\ ~fileOpenQueued'
        /\ layoutReady /\ respectLinks /\ (flashing \/ linkUsed))
       => filesOpening' = filesOpening]_vars


\* C27: with the openLinkText wrapper installed, linkUsed is true at every
\* moment at which at least one openLinkText call is in flight, several
\* overlapping calls included, and false whenever none is.
C27_LinkUsedWhileInFlight ==
    respectLinks => (linkUsed <=> linksInFlight > 0)


(***************************************************************************)
(* Shutdown: the plugin is unloaded while the tracker is in use.  The host  *)
(* detaches what was registered through the plugin (event handlers, the    *)
(* DOM listener, the interval, the openLinkText patch) and onunload awaits *)
(* store.flush(); the timeouts, animation frames and debouncers the        *)
(* tracker created itself stay as they are.                                *)
(***************************************************************************)
\* The host unloads the plugin: onunload() up to the await inside flush().
Unload ==
    /\ phase = "loaded"
    /\ ~fileOpenQueued
    /\ Len(writes) < MaxWrites
    /\ writeTimer' = FALSE
    /\ timeouts' = clearedTimeouts
    /\ writes' = (IF dirty THEN StartWrite("flush") ELSE writes)
    /\ flushRes' = (IF dirty /\ persistToDisk THEN "writing" ELSE "skipped")
    /\ phase' = (IF dirty /\ persistToDisk THEN "unloading" ELSE "unloaded")
    /\ call' = Call("flush", "", "", Undefined, FALSE)
    /\ UNCHANGED <<positions, dirty, settingsVars, trackerVars, disk, loadKind, ncalls>>

\* The write awaited by flush() has resolved: onunload() returns.
UnloadCompletes ==
    /\ phase = "unloading"
    /\ flushRes = "ok"
    /\ phase' = "unloaded"
    /\ UNCHANGED <<positions, dirty, writeTimer, timeouts, settingsVars, trackerVars, persistVars,
                   loadKind, call, ncalls>>

\* One hydrated store, notes in editing mode.
InitUnload == InitTimers /\ positions.map = [k \in TrackedKeys |-> EditingRecord]

\* Activations, scrolling, the restores and the store's writes, with the
\* unload at any moment.  (The interval and the editor-change handler are
\* registered through the plugin like the scroll listener; Spec has them.)
NextUnload ==
    \/ Unload
    \/ UnloadCompletes
    \/ WriteTimerFires
    \/ WriteStringify
    \/ WriteCompletes
    \/ HostActivate
    \/ FileOpen
    \/ HostFinishLoading
    \/ UserScroll
    \/ ScrollDebounceFires
    \/ SafetyTimerFires
    \/ RestoreFrame
    \/ RestorePollExhausted
    \/ RestoreApply
    \/ RestoreSettle

SpecUnload == InitUnload /\ [][NextUnload]_vars

\* C28: once onunload has completed, no timer created by the tracker or the
\* store runs (no debounced or periodic capture, no suppression expiry, no
\* pending restore, no debounced write), so no store mutation and no file
\* write happens after shutdown.
C28_QuietAfterUnload ==
    [][phase = "unloaded" => UNCHANGED <<positions, dirty, disk, writes>>]_vars

(***************************************************************************)
(* The loading poll, frame by frame: at startup the note of leaf 1 is      *)
(* still loading, and may never finish, while the note of leaf 2 is loaded.*)
(***************************************************************************)
InitPoll ==
    /\ positions = [kind |-> "object", map |-> [k \in TrackedKeys |-> EditingRecord]]
    /\ dirty = FALSE
    /\ writeTimer = FALSE
    /\ timeouts = {}
    /\ maxPositions = 0
    /\ persistToDisk = TRUE
    /\ disk = FileJson(JsonStringify(positions))
    /\ writes = <<>>
    /\ flushRes = "none"
    /\ phase = "loaded"
    /\ loadKind = "object"
    /\ call = NoCall
    /\ ncalls = 0
    /\ restoreCursor = TRUE
    /\ respectLinks = TRUE
    /\ layoutReady = FALSE
    /\ layoutEvent = TRUE
    /\ filesOpening = 0
    /\ linkUsed = FALSE
    /\ lastLeaf = NoLeaf
    /\ saveDebounced = FALSE
    /\ onScrollDebounced = FALSE
    /\ safetyTimers = 0
    /\ restores = <<>>
    /\ activeLeaf = 1
    /\ mostRecentLeaf = 1
    /\ activeFile = "f"
    /\ leaves = [l \in Leaves |->
                   View(IF l = 1 THEN "f" ELSE "g", "source", l = 1, 0, ZeroSel)]
    /\ flashing = FALSE
    /\ linksInFlight = 0
    /\ fileOpenQueued = FALSE
    /\ nevents = 0
    /\ applied = [l \in Leaves |-> NoApplied]
    /\ FixedLayout

\* An animation frame runs tryRestore for a closure that is polling.
PollFrame ==
    \E i \in 1..Len(restores) :
      /\ ~fileOpenQueued
      /\ restores[i].stage = "poll"
      /\ restores' = [restores EXCEPT ![i] = tryRestore(@)]
      /\ UNCHANGED <<restoreFrame, onScrollDebounced, filesOpening, leaves, applied>>

NextPoll ==
    \/ LayoutReady
    \/ HostFinishLoading
    \/ PollFrame
    \/ RestoreApply
    \/ RestoreSettle
    \/ ScrollDebounceFires

SpecPoll == InitPoll /\ [][NextPoll]_vars

\* An animation frame that was requested runs, and a timeout that was set
\* fires; nothing says that a note finishes loading.
SpecPollFair == SpecPoll /\ WF_vars(PollFrame) /\ WF_vars(RestoreApply)

\* C29: a restore polls leaf.working in at most maxAttempts animation frames,
\* and a restore that is polling gets to apply its record to its leaf, also
\* when the leaf never finishes loading: the poll does not run forever.
C29_PollingEnds ==
    /\ [](\A i \in 1..Len(restores) : restores[i].attempts <= maxAttempts)
    /\ \A l \in Leaves :
          (\E i \in 1..Len(restores) : restores[i].leaf = l /\ restores[i].stage = "poll")
          ~> (applied[l].rec = EditingRecord)

\* The record has been applied to a leaf that is still loading.
C29_Witness ==
    \E l \in Leaves : leaves[l].working /\ applied[l].rec = EditingRecord


\* C30: after set(key, p) has returned, get(key) returns p, for every key and
\* every record p, also when the store is at its maxPositions limit and p has
\* an older timestamp than the entries there.
C30_SetThenGet ==
    (call.op = "set" /\ ~call.threw) => get(call.key) = call.rec


(***************************************************************************)
(* Vault events: a note shown in the workspace is deleted or renamed while *)
(* the store holds its records, the one of the first tab group under the   *)
(* path and the one of the second under path#1.                            *)
(***************************************************************************)
\* The path a note is renamed to.
RenamedPath == "h"

\* The split ids of the leaves of the workspace.
SplitIds == {SplitIdOf(LeafAncestry[l]) : l \in Leaves}

vaultFrame ==
    <<storeSide, layoutVars, trackerSettings, layoutReady, filesOpening, linkUsed, lastLeaf,
      saveDebounced, onScrollDebounced, safetyTimers, restores, layoutEvent, activeLeaf,
      mostRecentLeaf, flashing, linksInFlight, fileOpenQueued>>

\* The vault "delete" handler: store.delete(file.path).  The views of the
\* deleted note are left without a file.
VaultDelete ==
    \E f \in Files :
      /\ phase = "loaded"
      /\ ~fileOpenQueued
      /\ nevents < MaxEvents
      /\ \E l \in Leaves : leaves[l].file = f
      /\ delete(f)
      /\ leaves' = [l \in Leaves |->
                      IF leaves[l].file = f
                      THEN View("", leaves[l].mode, FALSE, 0, ZeroSel) ELSE leaves[l]]
      /\ applied' = [l \in Leaves |-> IF leaves[l].file = f THEN NoApplied ELSE applied[l]]
      /\ activeFile' = (IF activeFile = f THEN "" ELSE activeFile)
      /\ nevents' = nevents + 1
      /\ UNCHANGED vaultFrame

\* The vault "rename" handler: store.rename(oldPath, file.path).  The views of
\* the note show it under its new path.
VaultRename ==
    \E f \in Files :
      /\ phase = "loaded"
      /\ ~fileOpenQueued
      /\ nevents < MaxEvents
      /\ \E l \in Leaves : leaves[l].file = f
      /\ rename(f, RenamedPath)
      /\ leaves' = [l \in Leaves |->
                      IF leaves[l].file = f
                      THEN [leaves[l] EXCEPT !.file = RenamedPath] ELSE leaves[l]]
      /\ applied' = [l \in Leaves |-> IF leaves[l].file = f THEN NoApplied ELSE applied[l]]
      /\ activeFile' = (IF activeFile = f THEN RenamedPath ELSE activeFile)
      /\ nevents' = nevents + 1
      /\ UNCHANGED vaultFrame

NextVault ==
    \/ VaultDelete
    \/ VaultRename
    \/ UserScroll
    \/ ScrollDebounceFires
    \/ IntervalFires

SpecVault == Init /\ [][NextVault]_vars

\* C31: after the delete event of a note the store holds no record of it in
\* any view slot (neither under its path nor under path#split), and after its
\* rename event every record of it is under the key of the new path with the
\* same split suffix and none is left under a key of the old path.
C31_VaultEventsFollowed ==
    /\ (call.op = "delete" /\ ~call.threw)
       => \A s \in SplitIds : KeyOf(call.key, s) \notin DOMAIN positions.map
    /\ (call.op = "rename" /\ ~call.threw)
       => \A s \in SplitIds :
             /\ KeyOf(call.key, s) \notin DOMAIN positions.map
             /\ KeyOf(call.key, s) \in DOMAIN call.pre.map
                => Lookup(positions, KeyOf(call.key2, s)) = call.pre.map[KeyOf(call.key, s)]


C33_OneWriteTimer ==
    /\ [](Cardinality(timeouts) <= 1 /\ (writeTimer <=> timeouts # {}))
    /\ [][(timeouts # {} /\ ncalls' # ncalls /\ call'.op \in {"set", "delete", "rename"})
          => timeouts' = timeouts]_vars

\* A set changed the mapping while the timeout of an earlier call was pending.
C33_Witness ==
    /\ call.op = "set" /\ positions # call.pre
    /\ Cardinality(timeouts) = 1
    /\ \A t \in timeouts : t + 1 < ncalls


\* C34: delete(key) removes the record and marks the store dirty when key is
\* present; when key is absent it changes nothing: the mapping, the dirty flag
\* and the pending write timer stay as they are and no write is scheduled.
C34_DeleteFrame ==
    [][(call'.op = "delete" /\ ncalls' # ncalls)
       => IF call'.key \in ObjectKeys(positions)
          THEN call'.key \notin ObjectKeys(positions') /\ dirty'
          ELSE UNCHANGED <<positions, dirty, writeTimer, timeouts>>]_vars


HostScrollUnreadable ==
    \E l \in Leaves :
      /\ ~fileOpenQueued
      /\ nevents < MaxEvents
      /\ leaves[l].file # ""
      /\ leaves[l].top # Undef
      /\ leaves' = [leaves EXCEPT ![l].top = Undef]
      /\ applied' = [applied EXCEPT ![l] = NoApplied]
      /\ nevents' = nevents + 1
      /\ UNCHANGED <<storeSide, layoutVars, storeUntouched, trackerSettings, layoutReady,
                     filesOpening, linkUsed, lastLeaf, saveDebounced, onScrollDebounced,
                     safetyTimers, restores, layoutEvent, activeLeaf, mostRecentLeaf,
                     activeFile, flashing, linksInFlight, fileOpenQueued>>

NextCapture ==
    \/ HostScrollUnreadable
    \/ Next

SpecCapture == Init /\ [][NextCapture]_vars

\* C36: every record a capture writes to the store has at least one of scroll
\* and scrollTop defined; a capture that could read no positional field
\* writes nothing.
C36_NoEmptyRecord ==
    call.op = "set" => (call.rec.scroll # Undef \/ call.rec.scrollTop # Undef)


(***************************************************************************)
(* The suppression counter from startup on: layout-ready, activations,     *)
(* file-open, the restores and the safety timeouts in any order.  (The     *)
(* captures, which do not touch the counter, are left to Spec.)            *)
(***************************************************************************)
NextCounter ==
    \/ LayoutReady
    \/ HostActivate
    \/ HostActivateSidebar
    \/ FileOpen
    \/ HostFinishLoading
    \/ SafetyTimerFires
    \/ RestoreFrame
    \/ RestorePollExhausted
    \/ RestoreApply
    \/ RestoreSettle

SpecCounter == InitStartup /\ [][NextCounter]_vars

\* C37: in every reachable state filesOpening is a non-negative integer no
\* greater than the number of safety timeouts still pending.
C37_CounterBounded ==
    /\ filesOpening \in Nat
    /\ filesOpening <= safetyTimers

\* A restore has applied its record and run its settle timeout, which left the
\* counter at zero, while a safety timeout is still pending.
C37_Witness ==
    /\ filesOpening = 0
    /\ safetyTimers > 0
    /\ restores = <<>>
    /\ \E l \in Leaves : applied[l].rec = EditingRecord

====
